---- MODULE Spec2Model ----
(***************************************************************************)
(* Stress/strain field of a plate with an inclusion (src/main.py).         *)
(*                                                                         *)
(* Numbers.  The program computes with floating-point reals.  Here a real  *)
(* is an exact rational <<n, d>> in lowest terms with d > 0; <<0, 0>> is   *)
(* the undefined value (a division by zero, the root of a negative         *)
(* number).  The results of the library functions np.cos, np.sin and       *)
(* np.sqrt are, as in the program, rounded to a finite grid: multiples of  *)
(* 1/TrigScale and 1/SqrtScale.  Angles are kept as rational multiples of  *)
(* np.pi, so np.pi is the angle 1 and 2 * np.pi the angle 2.               *)
(***************************************************************************)
EXTENDS Integers, Sequences, FiniteSets, TLC

VARIABLES
    cfg,                \* the scalar parameters (lines 11-20) and the sample count
    pc,                 \* the statement group the script has completed
    theta, r,           \* 1-D samples (lines 23-24)
    R, Theta, X, Y,     \* the polar grid and its Cartesian image (lines 25-27)
    sigma_xx, sigma_yy, sigma_xy,   \* stress fields (lines 56-58)
    e_xx, e_yy, e_xy,   \* strain fields (lines 61-63)
    sigma_e,            \* von Mises field (line 66)
    plastic_boundary,   \* yield mask (line 69)
    call                \* the last evaluation of one of the functions on its own

vars == <<cfg, pc, theta, r, R, Theta, X, Y, sigma_xx, sigma_yy, sigma_xy,
          e_xx, e_yy, e_xy, sigma_e, plastic_boundary, call>>

---------------------------------------------------------------------------
(* Bounds of the exploration.                                              *)

\* samples per axis of the reduced grid on which the field stages are explored
SmallSamples == 5
\* np.cos / np.sin results are rounded to multiples of 1/TrigScale
TrigScale == 4
\* np.sqrt results are rounded down to multiples of 1/SqrtScale
SqrtScale == 4
\* stress components offered to the von Mises formula: -MaxStress..MaxStress
MaxStress == 3
\* angles offered to the stress functions: k/AngleDen half-turns, |k| <= MaxAngle
MaxAngle == 7

\* samples per axis in the program (the literal 400 of lines 23 and 24)
NumSamples == 400

---------------------------------------------------------------------------
(* Rational arithmetic.                                                    *)

Abs(n) == IF n < 0 THEN -n ELSE n

RECURSIVE GCD(_, _)
GCD(m, n) == IF n = 0 THEN m ELSE GCD(n, m % n)

NaN == <<0, 0>>

IsNaN(x) == x[2] = 0

Rat(n, d) ==
    IF d = 0 THEN NaN
    ELSE LET g == GCD(Abs(n), Abs(d))
             s == IF d < 0 THEN -1 ELSE 1
         IN  <<s * (n \div g), s * (d \div g)>>

RInt(n) == <<n, 1>>

RNeg(x) == IF IsNaN(x) THEN NaN ELSE <<-x[1], x[2]>>

RAdd(x, y) ==
    IF IsNaN(x) \/ IsNaN(y) THEN NaN
    ELSE LET g == GCD(x[2], y[2])
         IN  Rat(x[1] * (y[2] \div g) + y[1] * (x[2] \div g), x[2] * (y[2] \div g))

RSub(x, y) == RAdd(x, RNeg(y))

RMul(x, y) ==
    IF IsNaN(x) \/ IsNaN(y) THEN NaN
    ELSE LET g1 == GCD(Abs(x[1]), y[2])
             g2 == GCD(Abs(y[1]), x[2])
         IN  Rat((x[1] \div g1) * (y[1] \div g2), (x[2] \div g2) * (y[2] \div g1))

\* x / y; a zero divisor gives the undefined value
RDiv(x, y) ==
    IF IsNaN(x) \/ IsNaN(y) \/ y[1] = 0 THEN NaN
    ELSE RMul(x, IF y[1] < 0 THEN <<-y[2], -y[1]>> ELSE <<y[2], y[1]>>)

RLt(x, y) == ~IsNaN(x) /\ ~IsNaN(y) /\ x[1] * y[2] < y[1] * x[2]

RLe(x, y) == ~IsNaN(x) /\ ~IsNaN(y) /\ x[1] * y[2] <= y[1] * x[2]

RGt(x, y) == RLt(y, x)

RFloor(x) == x[1] \div x[2]

\* v rounded to the nearest multiple of 1/scale, halves away from zero
RoundTo(v, scale) ==
    IF IsNaN(v) THEN NaN
    ELSE LET m == (2 * Abs(v[1]) * scale + v[2]) \div (2 * v[2])
         IN  Rat(IF v[1] < 0 THEN -m ELSE m, scale)

---------------------------------------------------------------------------
(* The library functions the program calls.                                *)

RECURSIVE ISqrtIn(_, _, _)
\* the largest k in lo..hi with k * k <= m, given lo * lo <= m
ISqrtIn(m, lo, hi) ==
    IF lo = hi THEN lo
    ELSE LET mid == (lo + hi + 1) \div 2
         IN  IF mid * mid <= m THEN ISqrtIn(m, mid, hi) ELSE ISqrtIn(m, lo, mid - 1)

\* np.sqrt: undefined below zero, otherwise the root rounded down to 1/SqrtScale
np_sqrt(x) ==
    IF IsNaN(x) \/ x[1] < 0 THEN NaN
    ELSE LET s2 == SqrtScale * SqrtScale
             m  == (x[1] \div x[2]) * s2 + ((x[1] % x[2]) * s2) \div x[2]
         IN  Rat(ISqrtIn(m, 0, (x[1] \div x[2] + 1) * SqrtScale), SqrtScale)

\* the angle reduced to [0, 2) half-turns
Mod2(x) == RSub(x, RInt(2 * RFloor(RDiv(x, RInt(2)))))

\* sin(pi * y) for 0 <= y <= 1: 16y(1-y) / (5 - 4y(1-y)), which is exact wherever
\* the sine of a rational multiple of pi is rational (0, 1/6, 1/2, 5/6, 1) and
\* within 0.002 of it elsewhere
SinArc(y) ==
    LET p == RMul(y, RSub(RInt(1), y))
    IN  RDiv(RMul(RInt(16), p), RSub(RInt(5), RMul(RInt(4), p)))

np_sin(x) ==
    LET y == Mod2(x)
        v == IF RLe(y, RInt(1)) THEN SinArc(y) ELSE RNeg(SinArc(RSub(y, RInt(1))))
    IN  RoundTo(v, TrigScale)

np_cos(x) == np_sin(RAdd(x, Rat(1, 2)))

\* np.linspace with endpoint=False: the step is (stop - start) / num
np_linspace_open(start, stop, num) ==
    LET step == RDiv(RSub(stop, start), RInt(num))
    IN  [k \in 0..(num - 1) |-> IF k = 0 THEN start ELSE RAdd(RMul(RInt(k), step), start)]

\* np.linspace(start, stop, num): num evenly spaced samples, both ends included
np_linspace(start, stop, num) ==
    LET step == RDiv(RSub(stop, start), RInt(num - 1))
    IN  [k \in 0..(num - 1) |->
            IF num > 1 /\ k = num - 1 THEN stop
            ELSE IF k = 0 THEN start
            ELSE RAdd(RMul(RInt(k), step), start)]

\* np.meshgrid with indexing='ij': the first argument varies along the rows
np_meshgrid_ij(xs, ys) ==
    << [i \in DOMAIN xs |-> [j \in DOMAIN ys |-> xs[i]]],
       [i \in DOMAIN xs |-> [j \in DOMAIN ys |-> ys[j]]] >>

\* np.meshgrid(xs, ys), default indexing: row i is the angular sample ys[i],
\* column j the radial sample xs[j]
np_meshgrid(xs, ys) ==
    << [i \in DOMAIN ys |-> [j \in DOMAIN xs |-> xs[j]]],
       [i \in DOMAIN ys |-> [j \in DOMAIN xs |-> ys[i]]] >>

---------------------------------------------------------------------------
(* The functions of the program (lines 32-53), element by element.         *)

\* a**2 / r**2, evaluated as (a / r)**2: the same rational, with intermediate
\* integers that stay inside TLC's 32-bit range on the 400-sample grid
Modulation(aa, rr) == LET q == RDiv(aa, rr) IN RMul(q, q)

Cos2(th) == np_cos(RMul(RInt(2), th))

Sin2(th) == np_sin(RMul(RInt(2), th))

\* stress_xx with the modulus ratio inverted (G1 / G)
stress_xx_inverse_ratio(rr, th, p1, p0, aa, g, g1) ==
    RAdd(RMul(p1, RAdd(RInt(1), RMul(Modulation(aa, rr), Cos2(th)))),
         RMul(RMul(RMul(p0, Modulation(aa, rr)), Cos2(th)), RDiv(g1, g)))

stress_xx(rr, th, p1, p0, aa, g, g1) ==
    RAdd(RMul(p1, RAdd(RInt(1), RMul(Modulation(aa, rr), Cos2(th)))),
         RMul(RMul(RMul(p0, Modulation(aa, rr)), Cos2(th)), RDiv(g, g1)))

stress_yy(rr, th, p2, p0, aa, g, g1) ==
    RAdd(RMul(p2, RSub(RInt(1), RMul(Modulation(aa, rr), Cos2(th)))),
         RMul(RMul(RMul(p0, Modulation(aa, rr)), Cos2(th)), RDiv(g, g1)))

\* stress_xy with np.cos in place of np.sin
stress_xy_cos(rr, th, p0, aa, g, g1) ==
    RMul(RMul(RMul(RNeg(p0), Modulation(aa, rr)), Cos2(th)), RDiv(g, g1))

stress_xy(rr, th, p0, aa, g, g1) ==
    RMul(RMul(RMul(RNeg(p0), Modulation(aa, rr)), Sin2(th)), RDiv(g, g1))

\* strain_xx with the Poisson term not multiplied by sigma_yy
strain_xx_affine(sxx, syy, ee, nn) ==
    RMul(RDiv(RInt(1), ee), RSub(sxx, nn))

strain_xx(sxx, syy, ee, nn) ==
    RMul(RDiv(RInt(1), ee), RSub(sxx, RMul(nn, syy)))

strain_yy(sxx, syy, ee, nn) ==
    RMul(RDiv(RInt(1), ee), RSub(syy, RMul(nn, sxx)))

strain_xy(sxy, g) == RMul(RDiv(RInt(1), g), sxy)

\* the radicand with the shear term subtracted
MisesRadicand_minus(sxx, syy, sxy) ==
    RSub(RSub(RAdd(RMul(sxx, sxx), RMul(syy, syy)), RMul(sxx, syy)),
         RMul(RInt(3), RMul(sxy, sxy)))

\* the radicand of line 66
MisesRadicand(sxx, syy, sxy) ==
    RAdd(RSub(RAdd(RMul(sxx, sxx), RMul(syy, syy)), RMul(sxx, syy)),
         RMul(RInt(3), RMul(sxy, sxy)))

von_mises(sxx, syy, sxy) == np_sqrt(MisesRadicand(sxx, syy, sxy))

\* the comparison with >= in place of >
exceeds_yield_inclusive(se, ys) == RLe(ys, se)

\* line 69 for one element
exceeds_yield(se, ys) == RGt(se, ys)

---------------------------------------------------------------------------
(* The parameters.                                                         *)

\* lines 11-20
Default ==
    [a |-> Rat(2, 100), b |-> Rat(15, 1000),
     P1 |-> RInt(150), P2 |-> RInt(150), P0 |-> RInt(50),
     G |-> RInt(810), G1 |-> RInt(1216), E |-> RInt(200000), nu |-> Rat(3, 10),
     yield_stress |-> RInt(250), num |-> NumSamples]

\* np.pi, in half-turns
Pi == RInt(1)

Empty == <<>>

NoCall == [op |-> "none"]

IdleFields ==
    /\ theta = Empty /\ r = Empty /\ R = Empty /\ Theta = Empty
    /\ X = Empty /\ Y = Empty
    /\ sigma_xx = Empty /\ sigma_yy = Empty /\ sigma_xy = Empty
    /\ e_xx = Empty /\ e_yy = Empty /\ e_xy = Empty
    /\ sigma_e = Empty /\ plastic_boundary = Empty

---------------------------------------------------------------------------
(* The script, one action per statement group.                             *)

\* line 23
BuildTheta ==
    /\ pc = "start"
    /\ theta' = np_linspace(RInt(0), RMul(RInt(2), Pi), cfg.num)
    /\ pc' = "theta"
    /\ UNCHANGED <<cfg, r, R, Theta, X, Y, sigma_xx, sigma_yy, sigma_xy,
                   e_xx, e_yy, e_xy, sigma_e, plastic_boundary, call>>

\* line 24
BuildR ==
    /\ pc = "theta"
    /\ r' = np_linspace(cfg.a, cfg.b, cfg.num)
    /\ pc' = "r"
    /\ UNCHANGED <<cfg, theta, R, Theta, X, Y, sigma_xx, sigma_yy, sigma_xy,
                   e_xx, e_yy, e_xy, sigma_e, plastic_boundary, call>>

\* line 25
Meshgrid ==
    /\ pc = "r"
    /\ R' = np_meshgrid(r, theta)[1]
    /\ Theta' = np_meshgrid(r, theta)[2]
    /\ pc' = "mesh"
    /\ UNCHANGED <<cfg, theta, r, X, Y, sigma_xx, sigma_yy, sigma_xy,
                   e_xx, e_yy, e_xy, sigma_e, plastic_boundary, call>>

\* lines 26-27
Cartesian ==
    /\ pc = "mesh"
    /\ LET x(i, j) == RMul(R[i][j], np_cos(Theta[i][j]))
           y(i, j) == RMul(R[i][j], np_sin(Theta[i][j]))
       IN  /\ X' = [i \in DOMAIN R |-> [j \in DOMAIN R[i] |-> x(i, j)]]
           /\ Y' = [i \in DOMAIN R |-> [j \in DOMAIN R[i] |-> y(i, j)]]
    /\ pc' = "cartesian"
    /\ UNCHANGED <<cfg, theta, r, R, Theta, sigma_xx, sigma_yy, sigma_xy,
                   e_xx, e_yy, e_xy, sigma_e, plastic_boundary, call>>

\* lines 56-58
Stress ==
    /\ pc = "cartesian"
    /\ LET xx(i, j) == stress_xx(R[i][j], Theta[i][j], cfg.P1, cfg.P0, cfg.a, cfg.G, cfg.G1)
           yy(i, j) == stress_yy(R[i][j], Theta[i][j], cfg.P2, cfg.P0, cfg.a, cfg.G, cfg.G1)
           xy(i, j) == stress_xy(R[i][j], Theta[i][j], cfg.P0, cfg.a, cfg.G, cfg.G1)
       IN  /\ sigma_xx' = [i \in DOMAIN R |-> [j \in DOMAIN R[i] |-> xx(i, j)]]
           /\ sigma_yy' = [i \in DOMAIN R |-> [j \in DOMAIN R[i] |-> yy(i, j)]]
           /\ sigma_xy' = [i \in DOMAIN R |-> [j \in DOMAIN R[i] |-> xy(i, j)]]
    /\ pc' = "stress"
    /\ UNCHANGED <<cfg, theta, r, R, Theta, X, Y,
                   e_xx, e_yy, e_xy, sigma_e, plastic_boundary, call>>

\* lines 61-63
Strain ==
    /\ pc = "stress"
    /\ LET xx(i, j) == strain_xx(sigma_xx[i][j], sigma_yy[i][j], cfg.E, cfg.nu)
           yy(i, j) == strain_yy(sigma_xx[i][j], sigma_yy[i][j], cfg.E, cfg.nu)
           xy(i, j) == strain_xy(sigma_xy[i][j], cfg.G)
       IN  /\ e_xx' = [i \in DOMAIN R |-> [j \in DOMAIN R[i] |-> xx(i, j)]]
           /\ e_yy' = [i \in DOMAIN R |-> [j \in DOMAIN R[i] |-> yy(i, j)]]
           /\ e_xy' = [i \in DOMAIN R |-> [j \in DOMAIN R[i] |-> xy(i, j)]]
    /\ pc' = "strain"
    /\ UNCHANGED <<cfg, theta, r, R, Theta, X, Y, sigma_xx, sigma_yy, sigma_xy,
                   sigma_e, plastic_boundary, call>>

\* line 66
Mises ==
    /\ pc = "strain"
    /\ LET se(i, j) == von_mises(sigma_xx[i][j], sigma_yy[i][j], sigma_xy[i][j])
       IN  sigma_e' = [i \in DOMAIN R |-> [j \in DOMAIN R[i] |-> se(i, j)]]
    /\ pc' = "mises"
    /\ UNCHANGED <<cfg, theta, r, R, Theta, X, Y, sigma_xx, sigma_yy, sigma_xy,
                   e_xx, e_yy, e_xy, plastic_boundary, call>>

\* line 69
Yield ==
    /\ pc = "mises"
    /\ LET pl(i, j) == exceeds_yield(sigma_e[i][j], cfg.yield_stress)
       IN  plastic_boundary' = [i \in DOMAIN R |-> [j \in DOMAIN R[i] |-> pl(i, j)]]
    /\ pc' = "done"
    /\ UNCHANGED <<cfg, theta, r, R, Theta, X, Y, sigma_xx, sigma_yy, sigma_xy,
                   e_xx, e_yy, e_xy, sigma_e, call>>

---------------------------------------------------------------------------
(* Spec: the whole script on the reduced grid, parameters from small sets. *)

Lengths == {Rat(1, 100), Rat(2, 100)}

Loads == {RInt(0), RInt(1), RInt(2)}

Moduli == {RInt(1), RInt(2)}

Configs ==
    [a : Lengths, b : Lengths, P1 : Loads, P2 : Loads, P0 : Loads,
     G : Moduli, G1 : Moduli, E : {RInt(2)}, nu : {Rat(3, 10)},
     yield_stress : {RInt(1), RInt(2)}, num : {SmallSamples}]

Init ==
    /\ cfg \in Configs
    /\ pc = "start"
    /\ IdleFields
    /\ call = NoCall

Next ==
    \/ BuildTheta
    \/ BuildR
    \/ Meshgrid
    \/ Cartesian
    \/ Stress
    \/ Strain
    \/ Mises
    \/ Yield

Spec == Init /\ [][Next]_vars

---------------------------------------------------------------------------
(* SpecGrid: the grid construction (lines 23-25) at the program's 400      *)
(* samples per axis, for the compiled-in radii and their neighbours.       *)

GridLengths == {Rat(k, 200) : k \in 1..6}

GridConfigs == {[Default EXCEPT !.a = x, !.b = y] : x \in GridLengths, y \in GridLengths}

InitGrid ==
    /\ cfg \in GridConfigs
    /\ pc = "start"
    /\ IdleFields
    /\ call = NoCall

NextGrid ==
    \/ BuildTheta
    \/ BuildR
    \/ Meshgrid

SpecGrid == InitGrid /\ [][NextGrid]_vars

---------------------------------------------------------------------------
(* SpecFn: the functions of lines 32-53 and the formula of line 66 applied *)
(* on their own to arguments drawn from small sets.                        *)

FnRadii == {Default.a, Default.b, Rat(1, 100)}

FnInclusions == {Default.a, Rat(1, 100)}

FnAngles == {Rat(k, 6) : k \in (-MaxAngle)..MaxAngle}

FnLoads == {RInt(-50), RInt(50), RInt(150)}

FnModuli == {Default.G, Default.G1}

StrainAngles == {Rat(k, 6) : k \in 0..MaxAngle}

StrainLoads == {RInt(0), RInt(50), RInt(150)}

StrainYoung == {RInt(2), RInt(5)}

Factors == {RInt(-1), RInt(0), RInt(2), Rat(1, 2)}

\* second load triples <<P1, P2, P0>> for the superposition
SecondLoads ==
    {<<Default.P1, Default.P2, Default.P0>>, <<RInt(50), RInt(0), RInt(0)>>,
     <<RInt(0), RInt(-50), RInt(0)>>, <<RInt(0), RInt(0), RInt(150)>>,
     <<RInt(0), RInt(0), RInt(0)>>}

StressValues == {Rat(n, d) : n \in (-MaxStress)..MaxStress, d \in {1, 2}}

\* the stress components at one point (lines 56-58 for one element)
StressAt(rr, th, p1, p2, p0, aa, g, g1) ==
    [r |-> rr, theta |-> th, P1 |-> p1, P2 |-> p2, P0 |-> p0, a |-> aa, G |-> g, G1 |-> g1,
     xx |-> stress_xx(rr, th, p1, p0, aa, g, g1),
     yy |-> stress_yy(rr, th, p2, p0, aa, g, g1),
     xy |-> stress_xy(rr, th, p0, aa, g, g1)]

\* e_xx at one point for the load triple <<P1, P2, P0>> (lines 56, 57, 61)
StrainAt(rr, th, load, aa, g, g1, ee, nn) ==
    strain_xx(stress_xx(rr, th, load[1], load[3], aa, g, g1),
              stress_yy(rr, th, load[2], load[3], aa, g, g1), ee, nn)

LoadSum(l1, l2) == <<RAdd(l1[1], l2[1]), RAdd(l1[2], l2[2]), RAdd(l1[3], l2[3])>>

LoadTimes(k, l) == <<RMul(k, l[1]), RMul(k, l[2]), RMul(k, l[3])>>

FnFrame == UNCHANGED <<cfg, pc, theta, r, R, Theta, X, Y, sigma_xx, sigma_yy, sigma_xy,
                       e_xx, e_yy, e_xy, sigma_e, plastic_boundary>>

EvalStress ==
    /\ call.op = "none"
    /\ \E rr \in FnRadii, aa \in FnInclusions, th \in FnAngles,
          p1 \in FnLoads, p2 \in FnLoads, p0 \in FnLoads, g \in FnModuli, g1 \in FnModuli :
          call' = [op |-> "stress", at |-> StressAt(rr, th, p1, p2, p0, aa, g, g1)]
    /\ FnFrame

\* the same point with the angle reflected
Reflect ==
    /\ call.op = "stress"
    /\ call' = [op |-> "reflect", of |-> call.at,
                at |-> StressAt(call.at.r, RNeg(call.at.theta), call.at.P1, call.at.P2,
                                call.at.P0, call.at.a, call.at.G, call.at.G1)]
    /\ FnFrame

EvalStrain ==
    /\ call.op = "none"
    /\ \E rr \in {Default.a, Default.b}, aa \in {Default.a}, th \in StrainAngles,
          p1 \in StrainLoads, p2 \in StrainLoads, p0 \in StrainLoads,
          g \in FnModuli, g1 \in FnModuli, ee \in StrainYoung :
          call' = [op |-> "strain", r |-> rr, theta |-> th, load |-> <<p1, p2, p0>>,
                   a |-> aa, G |-> g, G1 |-> g1, E |-> ee, nu |-> Default.nu,
                   exx |-> StrainAt(rr, th, <<p1, p2, p0>>, aa, g, g1, ee, Default.nu)]
    /\ FnFrame

\* e_xx for the sum of the evaluated load triple and a second one
Superpose ==
    /\ call.op = "strain"
    /\ \E other \in SecondLoads :
          LET ex(l) == StrainAt(call.r, call.theta, l, call.a, call.G, call.G1, call.E, call.nu)
          IN  call' = [op |-> "superpose", load |-> LoadSum(call.load, other),
                       parts |-> <<call.exx, ex(other)>>,
                       exx |-> ex(LoadSum(call.load, other))]
    /\ FnFrame

\* e_xx for a multiple of the evaluated load triple
Scale ==
    /\ call.op = "strain"
    /\ \E k \in Factors :
          call' = [op |-> "scale", factor |-> k, base |-> call.exx,
                   load |-> LoadTimes(k, call.load),
                   exx |-> StrainAt(call.r, call.theta, LoadTimes(k, call.load),
                                    call.a, call.G, call.G1, call.E, call.nu)]
    /\ FnFrame

\* line 66 for one element
EvalMises ==
    /\ call.op = "none"
    /\ \E sxx \in StressValues, syy \in StressValues, sxy \in StressValues :
          call' = [op |-> "mises", sxx |-> sxx, syy |-> syy, sxy |-> sxy,
                   radicand |-> MisesRadicand(sxx, syy, sxy),
                   sigma_e |-> von_mises(sxx, syy, sxy)]
    /\ FnFrame

InitFn ==
    /\ cfg = Default
    /\ pc = "start"
    /\ IdleFields
    /\ call = NoCall

NextFn ==
    \/ EvalStress
    \/ Reflect
    \/ EvalStrain
    \/ Superpose
    \/ Scale
    \/ EvalMises

SpecFn == InitFn /\ [][NextFn]_vars

---------------------------------------------------------------------------
(* Properties of the grid at the compiled-in parameters (SpecGrid).        *)

CompiledIn == cfg = Default

RadialBuilt == pc \in {"r", "mesh"}

Two == RInt(2)

\* C1: with the compiled-in a, b and 400 x 400 samples, R and Theta have shape
\* 400 x 400 and every grid point has a <= R[i,j] <= b and 0 <= Theta[i,j] <= 2*pi.
C1_GridInsideDomain ==
    (pc = "mesh" /\ CompiledIn) =>
        /\ DOMAIN R = 0..399 /\ DOMAIN Theta = 0..399
        /\ \A i \in 0..399 : DOMAIN R[i] = 0..399 /\ DOMAIN Theta[i] = 0..399
        /\ \A i \in 0..399 : \A j \in 0..399 :
              /\ RLe(cfg.a, R[i][j]) /\ RLe(R[i][j], cfg.b)
              /\ RLe(RInt(0), Theta[i][j]) /\ RLe(Theta[i][j], RMul(Two, Pi))

\* C7: over the radial samples, a^2/r^2 is 1 at r = a, is (a/b)^2 < 1 at r = b, and
\* is at most 1 everywhere, so that its maximum is attained at r = a.
C7_ModulationLargestAtInclusion ==
    (RadialBuilt /\ CompiledIn) =>
        /\ \A k \in DOMAIN r : r[k] = cfg.a => Modulation(cfg.a, r[k]) = RInt(1)
        /\ \A k \in DOMAIN r :
              r[k] = cfg.b => /\ Modulation(cfg.a, r[k]) = Modulation(cfg.a, cfg.b)
                              /\ RLt(Modulation(cfg.a, r[k]), RInt(1))
        /\ \A k \in DOMAIN r : RLe(Modulation(cfg.a, r[k]), RInt(1))

\* C9: no division by zero at any grid point: every radial sample has r >= a > 0,
\* and the divisors G1, E and G are nonzero.
C9_DivisorsNonzero ==
    (RadialBuilt /\ CompiledIn) =>
        /\ \A k \in DOMAIN r : RLe(cfg.a, r[k])
        /\ RLt(RInt(0), cfg.a)
        /\ cfg.G1 # RInt(0) /\ cfg.E # RInt(0) /\ cfg.G # RInt(0)

\* C10: with the compiled-in a = 0.02 > b = 0.015 the radial samples run backwards:
\* r[0] = a, r[399] = b, every consecutive difference is (b - a)/399 < 0, and the 400
\* samples are strictly decreasing, pairwise distinct and inside [b, a].
C10_RadialSamplesDescend ==
    (RadialBuilt /\ CompiledIn) =>
        /\ cfg.a = Rat(2, 100) /\ cfg.b = Rat(15, 1000) /\ RGt(cfg.a, cfg.b)
        /\ DOMAIN r = 0..399
        /\ r[0] = cfg.a /\ r[399] = cfg.b
        /\ \A k \in 0..398 :
              /\ RSub(r[k + 1], r[k]) = RDiv(RSub(cfg.b, cfg.a), RInt(399))
              /\ RLt(RSub(r[k + 1], r[k]), RInt(0))
              /\ RLt(r[k + 1], r[k])
        /\ \A k \in 0..399 : \A l \in 0..399 : k # l => r[k] # r[l]
        /\ \A k \in 0..399 : RLe(cfg.b, r[k]) /\ RLe(r[k], cfg.a)

\* the compiled-in radial samples are built and the last lies below the first
C10_Witness ==
    /\ pc = "mesh" /\ CompiledIn
    /\ RLt(r[399], r[0]) /\ RLt(r[200], r[199])
    /\ R[0][399] = cfg.b

---------------------------------------------------------------------------
(* Properties of the fields on the grid (Spec).                            *)

GridIndex == 0..(cfg.num - 1)

Shaped(F) == DOMAIN F = GridIndex /\ \A i \in GridIndex : DOMAIN F[i] = GridIndex

MeshBuilt == pc \in {"mesh", "cartesian", "stress", "strain", "mises", "done"}

\* C2: at every grid point plastic_boundary is true exactly when sigma_e exceeds
\* yield_stress strictly (equality is not plastic), sigma_e being the von Mises
\* value sqrt(sxx^2 + syy^2 - sxx*syy + 3*sxy^2) of the stresses at the same index.
C2_YieldMaskExact ==
    pc = "done" =>
        \A i \in GridIndex : \A j \in GridIndex :
            LET sxx == sigma_xx[i][j]
                syy == sigma_yy[i][j]
                sxy == sigma_xy[i][j]
                rad == RAdd(RSub(RAdd(RMul(sxx, sxx), RMul(syy, syy)), RMul(sxx, syy)),
                            RMul(RInt(3), RMul(sxy, sxy)))
            IN  /\ sigma_e[i][j] = np_sqrt(rad)
                /\ plastic_boundary[i][j] \in BOOLEAN
                /\ plastic_boundary[i][j] <=> RLt(cfg.yield_stress, sigma_e[i][j])
                /\ sigma_e[i][j] = cfg.yield_stress => ~plastic_boundary[i][j]

\* a finished run with a point exactly at the yield stress, one above and one below
C2_Witness ==
    /\ pc = "done"
    /\ \E i \in GridIndex, j \in GridIndex :
          sigma_e[i][j] = cfg.yield_stress /\ ~plastic_boundary[i][j]
    /\ \E i \in GridIndex, j \in GridIndex : plastic_boundary[i][j]
    /\ \E i \in GridIndex, j \in GridIndex :
          RLt(sigma_e[i][j], cfg.yield_stress) /\ cfg.P0 # RInt(0)

\* C8: R and Theta have the same shape, R[i,j] = r[j] depends only on the column and
\* Theta[i,j] = theta[i] only on the row, each pair (radial sample, angular sample)
\* occurs at exactly one grid position, and every 2-D field is co-indexed with the
\* grid: its element (i, j) is computed from r[j] and theta[i].
C8_FieldsCoIndexed ==
    /\ MeshBuilt =>
          /\ Shaped(R) /\ Shaped(Theta)
          /\ \A i \in GridIndex : \A j \in GridIndex :
                R[i][j] = r[j] /\ Theta[i][j] = theta[i]
          /\ cfg.a # cfg.b =>
                \A jj \in GridIndex : \A ii \in GridIndex :
                    Cardinality({p \in GridIndex \X GridIndex :
                        R[p[1]][p[2]] = r[jj] /\ Theta[p[1]][p[2]] = theta[ii]}) = 1
    /\ pc = "done" =>
          /\ Shaped(X) /\ Shaped(Y) /\ Shaped(sigma_xx) /\ Shaped(sigma_yy)
          /\ Shaped(sigma_xy) /\ Shaped(e_xx) /\ Shaped(e_yy) /\ Shaped(e_xy)
          /\ Shaped(sigma_e) /\ Shaped(plastic_boundary)
          /\ \A i \in GridIndex : \A j \in GridIndex :
                /\ X[i][j] = RMul(r[j], np_cos(theta[i]))
                /\ Y[i][j] = RMul(r[j], np_sin(theta[i]))
                /\ sigma_xx[i][j] =
                      stress_xx(r[j], theta[i], cfg.P1, cfg.P0, cfg.a, cfg.G, cfg.G1)
                /\ sigma_yy[i][j] =
                      stress_yy(r[j], theta[i], cfg.P2, cfg.P0, cfg.a, cfg.G, cfg.G1)
                /\ sigma_xy[i][j] =
                      stress_xy(r[j], theta[i], cfg.P0, cfg.a, cfg.G, cfg.G1)
                /\ e_xx[i][j] = strain_xx(sigma_xx[i][j], sigma_yy[i][j], cfg.E, cfg.nu)
                /\ e_yy[i][j] = strain_yy(sigma_xx[i][j], sigma_yy[i][j], cfg.E, cfg.nu)
                /\ e_xy[i][j] = strain_xy(sigma_xy[i][j], cfg.G)
                /\ sigma_e[i][j] = von_mises(sigma_xx[i][j], sigma_yy[i][j], sigma_xy[i][j])
                /\ plastic_boundary[i][j] = exceeds_yield(sigma_e[i][j], cfg.yield_stress)

\* a finished run on a grid whose rows and columns differ
C8_Witness ==
    /\ pc = "done"
    /\ cfg.a # cfg.b
    /\ R[0][1] # R[1][0] /\ Theta[0][1] # Theta[1][0]
    /\ sigma_xx[0][1] # sigma_xx[1][0]

---------------------------------------------------------------------------
(* Properties of the functions (SpecFn).                                   *)

Fixture ==
    /\ call.op = "stress"
    /\ call.at.theta = RInt(0) /\ call.at.r = call.at.a
    /\ call.at.P1 = RInt(150) /\ call.at.P0 = RInt(50)
    /\ call.at.G = RInt(810) /\ call.at.G1 = RInt(1216)

\* C3 as stated: stress_xx at theta = 0, r = a, P1 = 150, P0 = 50, G = 810,
\* G1 = 1216 is 300 + 33.22 = 333.22 to two decimal places.
C3_FixtureIs33322 ==
    Fixture => RoundTo(call.at.xx, 100) = Rat(33322, 100)

\* C3 as amended: stress_xx at theta = 0, r = a, P1 = 150, P0 = 50, G = 810,
\* G1 = 1216 is 150*(1+1) + 50*1*(810/1216) = 300 + 33.31 = 333.31 to two decimal
\* places.
C3_FixtureIs33331 ==
    Fixture =>
        /\ call.at.xx = RAdd(RInt(300), Rat(50 * 810, 1216))
        /\ RoundTo(call.at.xx, 100) = Rat(33331, 100)

\* the fixture has been evaluated
C3_Witness == Fixture /\ call.at.a = Default.a /\ RLt(RInt(333), call.at.xx)

\* C4: reflecting theta -> -theta leaves stress_xx and stress_yy unchanged and
\* negates stress_xy, for every r, theta, load and modulus offered.
C4_ReflectionSymmetry ==
    call.op = "reflect" =>
        /\ call.at.theta = RNeg(call.of.theta)
        /\ call.at.xx = call.of.xx
        /\ call.at.yy = call.of.yy
        /\ call.at.xy = RNeg(call.of.xy)

\* a reflection at a nonzero angle where the shear stress is nonzero and the
\* normal stresses depend on the angle
C4_Witness ==
    /\ call.op = "reflect"
    /\ call.of.theta # RInt(0) /\ call.at.theta # call.of.theta
    /\ call.of.xy # RInt(0) /\ call.at.xy # call.of.xy
    /\ call.of.xx # call.of.P1

\* C5: for fixed r, theta, a, G, G1, E, nu, e_xx is linear in the load triple
\* (P1, P2, P0): additive over sums of triples, homogeneous under scaling by k,
\* and zero for the zero triple.
C5_StrainLinearInLoads ==
    /\ call.op = "superpose" => call.exx = RAdd(call.parts[1], call.parts[2])
    /\ call.op = "scale" => call.exx = RMul(call.factor, call.base)
    /\ (call.op = "strain" /\ call.load = <<RInt(0), RInt(0), RInt(0)>>) =>
          call.exx = RInt(0)

\* a superposition of two nonzero strains
C5_Witness ==
    /\ call.op = "superpose"
    /\ call.parts[1] # RInt(0) /\ call.parts[2] # RInt(0)
    /\ call.parts[1] # call.parts[2]
    /\ call.exx # RInt(0)

\* C6: for all stress components the radicand sxx^2 + syy^2 - sxx*syy + 3*sxy^2 is
\* >= 0, so sigma_e is real and non-negative; the radicand is 0 only when
\* sxx = syy = sxy = 0.
C6_RadicandNonNegative ==
    call.op = "mises" =>
        /\ RLe(RInt(0), call.radicand)
        /\ ~IsNaN(call.sigma_e) /\ RLe(RInt(0), call.sigma_e)
        /\ call.radicand = RInt(0) =>
              (call.sxx = RInt(0) /\ call.syy = RInt(0) /\ call.sxy = RInt(0))

\* the formula applied where the cross term is subtracted from the squares
C6_Witness ==
    /\ call.op = "mises"
    /\ RLt(RInt(0), RMul(call.sxx, call.syy))
    /\ call.sxy # RInt(0)
    /\ RLt(RInt(0), call.sigma_e)

====
